---- MODULE Spec2Model ----
(***************************************************************************)
(* Model of ocpp/charge_point.py: the ChargePoint session.                 *)
(*                                                                         *)
(*  - the outbound call engine: call() under _call_lock, and               *)
(*    _get_specific_response() draining _response_queue against a          *)
(*    deadline;                                                            *)
(*  - the receive loop: start() / route_message() / _handle_call(), with   *)
(*    the on_action / after_action hooks of the route map;                 *)
(*  - the naming conversion of payload keys: camel_to_snake_case() and     *)
(*    snake_to_camel_case(), on keys kept as sequences of characters.      *)
(*                                                                         *)
(* Time is discrete.  One tick is half a time unit of the specification,   *)
(* so that arrivals at 0.5, 1.0 and 1.5 under a timeout of 2 are ticks 1,  *)
(* 2 and 3 under a timeout of 4.  The clock is only ever read inside       *)
(* _get_specific_response, so it advances only while a call is waiting;    *)
(* a timer that is due and a queue item that is ready are served before    *)
(* the clock advances (the event loop runs ready callbacks first).         *)
(***************************************************************************)
EXTENDS Integers, Sequences, FiniteSets, TLC

\* ------------------------------------------------------------- bounds
\* Number of call() invocations (tasks) on the session.
NumCalls == 2
\* Number of frames the peer sends to the session.
MaxFrames == 3
\* Nesting depth of the payloads whose keys are converted.
MaxDepth == 3

\* ------------------------------------------------- program constants
\* ChargePoint.__init__(response_timeout): ticks a call waits for its
\* response (4 ticks = 2 time units).
response_timeout == 4

Calls == 1..NumCalls
Frames == 1..MaxFrames

\* An id no call() of this session ever generated (a stale or foreign
\* response).
NoiseId == NumCalls + 1

\* str(self._unique_id_generator()): uuid4 gives every call its own id.
unique_id(c) == c

\* The error triples (code, description, details) a peer's CallError carries.
ErrorCodes == {"GenericError", "SecurityError"}

NoMsg == [mt |-> "None", unique_id |-> -1, err |-> "none", action |-> "none"]

CallFrame(id, action) ==
    [mt |-> "Call", unique_id |-> id, err |-> "none", action |-> action]

\* msg.create_call_result(payload)
create_call_result(id) ==
    [mt |-> "CallResult", unique_id |-> id, err |-> "none", action |-> "none"]

\* msg.create_call_error(exception)
create_call_error(id, e) ==
    [mt |-> "CallError", unique_id |-> id, err |-> e, action |-> "none"]

\* response.to_exception(): the error built from a CallError, carrying the
\* peer's error code, description and details.
to_exception(response) == response.err

VARIABLES
    ocpp_version,    \* self._ocpp_version
    call_lock,       \* self._call_lock: 0 when free, else the holding call
    response_queue,  \* self._response_queue
    wire,            \* frames handed to self._connection.send, in order
    calls,           \* per call() invocation: its position and locals
    loop,            \* the start() task: its position and current message
    inbox,           \* the frames received so far, in arrival order (a
                     \* Call in full, a response by its message type)
    after,           \* per inbound Call: its after_action hook's progress
    naming           \* a payload under conversion between wire naming and
                     \* internal naming: the input and the results

vars == <<ocpp_version, call_lock, response_queue, wire, calls, loop,
          inbox, after, naming>>

Versions == {"1.6", "2.0", "2.0.1"}


\* ------------------------------------------------ naming conversion
\* A key is the sequence of its characters.
ascii_lowercase ==
    <<"a", "b", "c", "d", "e", "f", "g", "h", "i", "j", "k", "l", "m",
      "n", "o", "p", "q", "r", "s", "t", "u", "v", "w", "x", "y", "z">>
ascii_uppercase ==
    <<"A", "B", "C", "D", "E", "F", "G", "H", "I", "J", "K", "L", "M",
      "N", "O", "P", "Q", "R", "S", "T", "U", "V", "W", "X", "Y", "Z">>
digits == <<"0", "1", "2", "3", "4", "5", "6", "7", "8", "9">>

\* The character classes of the regular expressions: [A-Z], [a-z], [0-9].
IsUpper(ch) == \E i \in DOMAIN ascii_uppercase : ascii_uppercase[i] = ch
IsLower(ch) == \E i \in DOMAIN ascii_lowercase : ascii_lowercase[i] = ch
IsDigit(ch) == \E i \in DOMAIN digits : digits[i] = ch

\* str.lower() and str.upper() on one character.
lower(ch) ==
    IF IsUpper(ch)
    THEN ascii_lowercase[CHOOSE i \in DOMAIN ascii_uppercase :
                            ascii_uppercase[i] = ch]
    ELSE ch
upper(ch) ==
    IF IsLower(ch)
    THEN ascii_uppercase[CHOOSE i \in DOMAIN ascii_lowercase :
                            ascii_lowercase[i] = ch]
    ELSE ch

\* old occurs in s at position i.
OccursAt(s, i, old) ==
    /\ i + Len(old) - 1 <= Len(s)
    /\ SubSeq(s, i, i + Len(old) - 1) = old

\* str.replace(old, new): every occurrence of old, found from left to right
\* without overlap, is replaced by new.
RECURSIVE ReplaceFrom(_, _, _, _)
ReplaceFrom(s, old, new, i) ==
    IF i > Len(s) THEN <<>>
    ELSE IF OccursAt(s, i, old)
         THEN new \o ReplaceFrom(s, old, new, i + Len(old))
         ELSE <<s[i]>> \o ReplaceFrom(s, old, new, i + 1)

replace(s, old, new) == ReplaceFrom(s, old, new, 1)

\* The last position of the run of lower-case letters that begins at i.
RECURSIVE LowerRunEnd(_, _)
LowerRunEnd(s, i) ==
    IF i + 1 <= Len(s) /\ IsLower(s[i + 1]) THEN LowerRunEnd(s, i + 1) ELSE i

\* re.sub("(.)([A-Z][a-z]+)", r"\1_\2", key): an underscore goes between
\* any character and a capital that is followed by lower-case letters; the
\* scan resumes after the match.
RECURSIVE SubWordFrom(_, _)
SubWordFrom(s, i) ==
    IF i > Len(s) THEN <<>>
    ELSE IF i + 2 <= Len(s) /\ IsUpper(s[i + 1]) /\ IsLower(s[i + 2])
         THEN LET j == LowerRunEnd(s, i + 2)
              IN  <<s[i], "_">> \o SubSeq(s, i + 1, j) \o SubWordFrom(s, j + 1)
         ELSE <<s[i]>> \o SubWordFrom(s, i + 1)

\* re.sub("([a-z0-9])([A-Z])(?=\\S)", r"\1_\2", s1): an underscore goes
\* between a lower-case letter or digit and a capital that is not the last
\* character of the key.
RECURSIVE SubCapitalFrom(_, _)
SubCapitalFrom(s, i) ==
    IF i > Len(s) THEN <<>>
    ELSE IF /\ i + 2 <= Len(s)
            /\ IsLower(s[i]) \/ IsDigit(s[i])
            /\ IsUpper(s[i + 1])
            /\ s[i + 2] # " "
         THEN <<s[i], "_", s[i + 1]>> \o SubCapitalFrom(s, i + 2)
         ELSE <<s[i]>> \o SubCapitalFrom(s, i + 1)

\* key.lower()
LowerCase(s) == [i \in 1..Len(s) |-> lower(s[i])]

\* components = key.split("_"); components[0] + "".join(x[:1].upper() +
\* x[1:] for x in components[1:]): the underscores go, and the character
\* after an underscore is upper-cased.
RECURSIVE JoinComponentsFrom(_, _, _)
JoinComponentsFrom(s, i, first) ==
    IF i > Len(s) THEN <<>>
    ELSE IF s[i] = "_" THEN JoinComponentsFrom(s, i + 1, TRUE)
    ELSE <<IF first THEN upper(s[i]) ELSE s[i]>>
            \o JoinComponentsFrom(s, i + 1, FALSE)

\* The tokens of the exception tables.
tok_ocppCSMSURL == <<"o", "c", "p", "p", "C", "S", "M", "S", "U", "R", "L">>
tok_ocpp_csms_url ==
    <<"o", "c", "p", "p", "_", "c", "s", "m", "s", "_", "u", "r", "l">>
tok_ocppCsmsUrl == <<"o", "c", "p", "p", "C", "s", "m", "s", "U", "r", "l">>
tok_V2X == <<"V", "2", "X">>
tok__v2x == <<"_", "v", "2", "x">>
tok_V2G == <<"V", "2", "G">>
tok__v2g == <<"_", "v", "2", "g">>
tok_soc == <<"s", "o", "c">>
tok_SoC == <<"S", "o", "C">>
tok_csms == <<"c", "s", "m", "s">>
tok_CSMS == <<"C", "S", "M", "S">>
tok__url == <<"_", "u", "r", "l">>
tok_URL == <<"U", "R", "L">>
tok__SoCket == <<"_", "S", "o", "C", "k", "e", "t">>
tok_Socket == <<"S", "o", "c", "k", "e", "t">>
tok_soc_limit_reached ==
    <<"s", "o", "c", "_", "l", "i", "m", "i", "t", "_", "r", "e", "a", "c", "h", "e", "d">>
tok_SOCLimitReached ==
    <<"S", "O", "C", "L", "i", "m", "i", "t", "R", "e", "a", "c", "h", "e", "d">>

\* camel_to_snake_case, the statements applied to one key.
camel_to_snake_key(key) ==
    LET k1 == replace(key, tok_ocppCSMSURL, tok_ocpp_csms_url)
        k2 == replace(replace(k1, tok_V2X, tok__v2x), tok_V2G, tok__v2g)
        s1 == SubWordFrom(k2, 1)
    IN  LowerCase(SubCapitalFrom(s1, 1))

\* snake_to_camel_case, the statements applied to one key, in their order.
snake_to_camel_key(key) ==
    LET k1 == replace(key, tok_soc, tok_SoC)
        k2 == replace(k1, tok__v2x, tok_V2X)
        k3 == replace(k2, tok_ocpp_csms_url, tok_ocppCsmsUrl)
        k4 == replace(k3, tok_csms, tok_CSMS)
        k5 == replace(k4, tok__url, tok_URL)
        k6 == replace(replace(k5, tok_soc, tok_SoC), tok__SoCket, tok_Socket)
        k7 == replace(k6, tok__v2x, tok_V2X)
        k8 == replace(k7, tok_soc_limit_reached, tok_SOCLimitReached)
        k9 == replace(replace(k8, tok__v2x, tok_V2X), tok__v2g, tok_V2G)
    IN  JoinComponentsFrom(k9, 1, FALSE)

\* Payload data: a value that is no container ("leaf"), a list of data, or
\* a dict, kept as its items <<key, data>> in insertion order.
Leaf(x) == [t |-> "leaf", items |-> <<>>, x |-> x]
List(items) == [t |-> "list", items |-> items, x |-> ""]
Dict(items) == [t |-> "dict", items |-> items, x |-> ""]

\* d[key] = value on the items of a dict: a key already present keeps its
\* place and takes the new value.
SetItem(items, key, value) ==
    IF \E i \in DOMAIN items : items[i][1] = key
    THEN [i \in DOMAIN items |->
             IF items[i][1] = key THEN <<key, value>> ELSE items[i]]
    ELSE Append(items, <<key, value>>)

RECURSIVE camel_to_snake_case(_)
RECURSIVE snake_case_dict(_, _, _)
\* The loop of camel_to_snake_case over data.items().
snake_case_dict(items, i, acc) ==
    IF i > Len(items) THEN acc
    ELSE snake_case_dict(items, i + 1,
             SetItem(acc, camel_to_snake_key(items[i][1]),
                     camel_to_snake_case(items[i][2])))

camel_to_snake_case(data) ==
    CASE data.t = "dict" -> Dict(snake_case_dict(data.items, 1, <<>>))
      [] data.t = "list" ->
            List([i \in DOMAIN data.items |->
                     camel_to_snake_case(data.items[i])])
      [] OTHER -> data

RECURSIVE snake_to_camel_case(_)
RECURSIVE camel_case_dict(_, _, _)
\* The loop of snake_to_camel_case over data.items().
camel_case_dict(items, i, acc) ==
    IF i > Len(items) THEN acc
    ELSE camel_case_dict(items, i + 1,
             SetItem(acc, snake_to_camel_key(items[i][1]),
                     snake_to_camel_case(items[i][2])))

snake_to_camel_case(data) ==
    CASE data.t = "dict" -> Dict(camel_case_dict(data.items, 1, <<>>))
      [] data.t = "list" ->
            List([i \in DOMAIN data.items |->
                     snake_to_camel_case(data.items[i])])
      [] OTHER -> data

\* No conversion under way.
NoNaming ==
    [pc |-> "none", dir |-> "none", input |-> Leaf(""),
     output |-> Leaf(""), back |-> Leaf("")]


\* ------------------------------------------------------------ helpers
\* The ids of the Call frames this session has put on the wire.
SentIds == {wire[i].unique_id : i \in {j \in 1..Len(wire) : wire[j].mt = "Call"}}

\* Mutant of CanAcquire: the lock is never consulted.
CanAcquireAlways(lock) == TRUE

\* asyncio.Lock.acquire() goes through only while the lock is not held.
CanAcquire(lock) == lock = 0

\* Mutant of ExitLock: acquire()/release() without try/finally, so an
\* exception inside the block leaves the lock held.
ExitLockNoFinally(lock, how) == IF how = "exception" THEN lock ELSE 0

\* `async with self._call_lock`: __aexit__ releases the lock however the
\* block is left: "response" (a response was returned), "timeout" (the
\* return in the except clause, or a None response), "exception" (an
\* exception of _send leaves the block).
ExitLock(lock, how) == 0

\* Mutant of Matches: the next queued response is taken whatever its id.
MatchesAny(response, id) == TRUE

\* if response.unique_id == unique_id
Matches(response, id) == response.unique_id = id

\* Mutant of TimeoutLeft: every mismatch re-arms the full timeout.
TimeoutLeftRearmed(wait_until, t) == response_timeout

\* timeout_left = wait_until - time.time()
TimeoutLeft(wait_until, t) == wait_until - t

\* Mutant of CallOutcome: a missing response raises TimeoutError out of
\* call(), as the docstrings announce.
CallOutcomeRaisesTimeout(response, suppress, valid) ==
    IF response = NoMsg THEN "timeout"
    ELSE IF response.mt = "CallError"
         THEN IF suppress THEN "none" ELSE "error"
         ELSE IF valid THEN "result" ELSE "validation"

\* Mutant of CallOutcome: the test on suppress is inverted.
CallOutcomeSuppressInverted(response, suppress, valid) ==
    IF response = NoMsg THEN "none"
    ELSE IF response.mt = "CallError"
         THEN IF suppress THEN "error" ELSE "none"
         ELSE IF valid THEN "result" ELSE "validation"

\* call(), after the lock block: what the invocation returns or raises for
\* the response it got.  `valid` is the outcome of validate_payload on a
\* CallResult (TRUE also when skip_schema_validation is set).
CallOutcome(response, suppress, valid) ==
    IF response = NoMsg THEN "none"
    ELSE IF response.mt = "CallError"
         THEN IF suppress THEN "none" ELSE "error"
         ELSE IF valid THEN "result" ELSE "validation"

\* The exception call() raises with the outcome "error".
CallException(response, suppress) ==
    IF response # NoMsg /\ response.mt = "CallError" /\ ~suppress
    THEN to_exception(response) ELSE "none"

\* A call() invocation.  `now` is the clock as the invocation reads it,
\* counted from the moment its wait began (time.time() has no fixed origin);
\* `ended`, `discarded` and `match_at` record when the wait ended, which
\* responses it discarded and when, and when a response with its id was
\* first queued; `how` records how _get_specific_response ended: it
\* returned a response ("response"), returned without one ("None"), or
\* raised asyncio.TimeoutError ("TimeoutError").  `by` is the caller: 0 for
\* a task of its own, n for the on_action handler of inbound Call n.
IdleCall ==
    [pc |-> "idle", now |-> 0, timeout |-> 0, wait_until |-> 0,
     response |-> NoMsg, suppress |-> TRUE, outcome |-> "pending",
     exc |-> "none", ended |-> -1, discarded |-> <<>>, match_at |-> -1,
     how |-> "pending", by |-> 0]

\* _get_specific_response has returned to call(): its locals are gone, the
\* response (or none) and the time are kept.
Returned(call, response) ==
    [call EXCEPT !.pc = "post", !.response = response, !.ended = call.now,
                 !.now = 0, !.timeout = 0, !.wait_until = 0,
                 !.how = IF response = NoMsg THEN "None" ELSE "response"]

\* Mutant of Validated: the result of validate_payload is ignored and the
\* call goes on to the lock.
ValidatedIgnored(call, valid) ==
    [call EXCEPT !.pc = "lock",
                 !.outcome = IF valid THEN "pending" ELSE "validation"]

\* if not skip_schema_validation: await validate_payload(call, ...).  A
\* request that fails validation raises out of call(); otherwise call()
\* goes on to the lock.
Validated(call, valid) ==
    IF valid
    THEN [call EXCEPT !.pc = "lock"]
    ELSE [call EXCEPT !.pc = "done", !.outcome = "validation"]

\* -------------------------------------------------- the call engine
\* call(), up to the lock: the Call is built and validate_payload awaited.
\* A request that fails validation raises to the caller before the lock.
\* The invocations are numbered in the order in which they begin.
CallStart(c) ==
    /\ calls[c].pc = "idle"
    /\ \A d \in Calls : d < c => calls[d].pc # "idle"
    /\ \E valid \in BOOLEAN :
         calls' = [calls EXCEPT ![c] = Validated(calls[c], valid)]
    /\ UNCHANGED <<naming, ocpp_version, call_lock, response_queue, wire, loop,
                   inbox, after>>

\* async with self._call_lock: entered.
Acquire(c) ==
    /\ calls[c].pc = "lock"
    /\ CanAcquire(call_lock)
    /\ call_lock' = c
    /\ calls' = [calls EXCEPT ![c].pc = "send"]
    /\ UNCHANGED <<naming, ocpp_version, response_queue, wire, loop, inbox, after>>

\* await self._send(call.to_json()), then _get_specific_response starts:
\* wait_until = time.time() + timeout and wait_for(queue.get(), timeout).
SendCall(c) ==
    /\ calls[c].pc = "send"
    /\ wire' = Append(wire, CallFrame(unique_id(c), "call"))
    /\ calls' = [calls EXCEPT ![c] =
           [@ EXCEPT !.pc = "wait", !.timeout = response_timeout,
                     !.wait_until = calls[c].now + response_timeout]]
    /\ UNCHANGED <<naming, ocpp_version, call_lock, response_queue, loop, inbox,
                   after>>

\* self._connection.send raises: the exception leaves the lock block and
\* call().
SendCallFails(c) ==
    /\ calls[c].pc = "send"
    /\ call_lock' = ExitLock(call_lock, "exception")
    /\ calls' = [calls EXCEPT ![c] =
           [@ EXCEPT !.pc = "done", !.outcome = "connection"]]
    /\ UNCHANGED <<naming, ocpp_version, response_queue, wire, loop, inbox, after>>

\* _get_specific_response: wait_for(queue.get(), timeout) returns the next
\* queued response.  A match is returned to call(), which leaves the lock
\* block; a mismatch is discarded and the wait goes on for timeout_left,
\* or TimeoutError is raised when none is left (call() catches it and
\* leaves the lock block without a response).
\* wait_for with a timeout of 0 cancels the get before it takes an item.
GetResponse(c) ==
    /\ calls[c].pc = "wait"
    /\ calls[c].timeout > 0
    /\ response_queue # <<>>
    /\ LET response == Head(response_queue)
           timeout_left == TimeoutLeft(calls[c].wait_until, calls[c].now)
           dropped == Append(calls[c].discarded,
                             <<response.unique_id, calls[c].now>>)
       IN  /\ response_queue' = Tail(response_queue)
           /\ IF Matches(response, unique_id(c))
              THEN /\ calls' = [calls EXCEPT ![c] = Returned(calls[c], response)]
                   /\ call_lock' = ExitLock(call_lock, "response")
              ELSE IF timeout_left < 0
              THEN /\ calls' = [calls EXCEPT ![c] =
                         [Returned(calls[c], NoMsg)
                            EXCEPT !.discarded = dropped,
                                   !.how = "TimeoutError"]]
                   /\ call_lock' = ExitLock(call_lock, "timeout")
              ELSE /\ calls' = [calls EXCEPT ![c] =
                         [@ EXCEPT !.timeout = timeout_left,
                                   !.wait_until = calls[c].now + timeout_left,
                                   !.discarded = dropped]]
                   /\ UNCHANGED call_lock
    /\ UNCHANGED <<naming, ocpp_version, wire, loop, inbox, after>>

\* _get_specific_response: wait_for times out; the except clause returns
\* None and call() leaves the lock block without a response.
WaitTimeout(c) ==
    /\ calls[c].pc = "wait"
    /\ calls[c].now >= calls[c].wait_until
    /\ calls' = [calls EXCEPT ![c] = Returned(calls[c], NoMsg)]
    /\ call_lock' = ExitLock(call_lock, "timeout")
    /\ UNCHANGED <<naming, ocpp_version, response_queue, wire, loop, inbox, after>>

\* call(), after the lock block: no response (None is returned), a
\* CallError (suppressed or raised), or a CallResult (validated and
\* returned).  `suppress` is read only here, so it is drawn here.  The
\* invocation is over: only its outcome is kept.
FinishCall(c) ==
    /\ calls[c].pc = "post"
    /\ \E valid \in BOOLEAN, suppress \in BOOLEAN :
         calls' = [calls EXCEPT ![c] =
             [IdleCall EXCEPT
                 !.pc = "done",
                 !.suppress = suppress,
                 !.response = calls[c].response,
                 !.outcome = CallOutcome(calls[c].response, suppress, valid),
                 !.exc = CallException(calls[c].response, suppress),
                 !.by = calls[c].by]]
    /\ UNCHANGED <<naming, ocpp_version, call_lock, response_queue, wire, loop,
                   inbox, after>>

\* Time passes for the calls that wait, unless a timer is due or a queued
\* response is ready to be taken.
Tick ==
    /\ \E c \in Calls : calls[c].pc = "wait"
    /\ \A c \in Calls : calls[c].pc = "wait" =>
          /\ calls[c].now < calls[c].wait_until
          /\ ~(calls[c].timeout > 0 /\ response_queue # <<>>)
    /\ calls' = [c \in Calls |->
          IF calls[c].pc = "wait"
          THEN [calls[c] EXCEPT !.now = @ + 1] ELSE calls[c]]
    /\ UNCHANGED <<naming, ocpp_version, call_lock, response_queue, wire, loop,
                   inbox, after>>

\* ------------------------------------------------ the route map
\* create_route_map(self): the bundles registered on the session.  One
\* bundle of each shape: on_action and after_action, on_action only (schema
\* validation skipped), after_action only, after_action only for a custom
\* action (schema validation skipped).
route_map ==
    [a \in {"BootNotification", "DataTransfer", "MeterValues", "VendorThing"} |->
       CASE a = "BootNotification" ->
              [on_action |-> TRUE, after_action |-> TRUE, skip |-> FALSE]
         [] a = "DataTransfer" ->
              [on_action |-> TRUE, after_action |-> FALSE, skip |-> TRUE]
         [] a = "MeterValues" ->
              [on_action |-> FALSE, after_action |-> TRUE, skip |-> FALSE]
         [] OTHER ->
              [on_action |-> FALSE, after_action |-> TRUE, skip |-> TRUE]]

\* The actions a peer's Call may name.
InboundActions ==
    DOMAIN route_map \cup {"Heartbeat", "NotifyReport", "UnknownThing"}

\* ocpp.v16.enums.Action and ocpp.v201.enums.Action: the actions each
\* protocol version defines.
v16_Action == {"BootNotification", "DataTransfer", "MeterValues", "Heartbeat"}
v201_Action ==
    {"BootNotification", "DataTransfer", "MeterValues", "Heartbeat",
     "NotifyReport"}

\* Mutant of raise_key_error: the two errors are swapped.
raise_key_error_swapped(action, version) ==
    IF version = "1.6"
    THEN IF action \in v16_Action
         THEN "NotSupportedError" ELSE "NotImplementedError"
    ELSE IF version \in {"2.0", "2.0.1"}
    THEN IF action \in v201_Action
         THEN "NotSupportedError" ELSE "NotImplementedError"
    ELSE "return"

\* _raise_key_error(action, version): the error it raises, or "return" when
\* it falls through (a version that is neither 1.6, 2.0 nor 2.0.1).
raise_key_error(action, version) ==
    IF version = "1.6"
    THEN IF action \in v16_Action
         THEN "NotImplementedError" ELSE "NotSupportedError"
    ELSE IF version \in {"2.0", "2.0.1"}
    THEN IF action \in v201_Action
         THEN "NotImplementedError" ELSE "NotSupportedError"
    ELSE "return"

\* Mutant of NextStep: after_action is run before the response is sent.
NextStepHookFirst(step, skip) ==
    CASE step = "lookup"       -> IF skip THEN "on_action" ELSE "validate_req"
      [] step = "validate_req" -> "on_action"
      [] step = "on_action"    -> IF skip THEN "after" ELSE "validate_res"
      [] step = "validate_res" -> "after"
      [] step = "after"        -> "send_result"
      [] OTHER                 -> "recv"

\* Mutant of NextStep: the response is validated after it has been sent.
NextStepValidateLate(step, skip) ==
    CASE step = "lookup"       -> IF skip THEN "on_action" ELSE "validate_req"
      [] step = "validate_req" -> "on_action"
      [] step = "on_action"    -> "send_result"
      [] step = "send_result"  -> "validate_res"
      [] step = "validate_res" -> "after"
      [] OTHER                 -> "recv"

\* _handle_call's statements in order, after the route lookup: validate the
\* request, look up and run on_action, validate the response, send it, run
\* after_action, return.
NextStep(step, skip) ==
    CASE step = "lookup"       -> IF skip THEN "on_action" ELSE "validate_req"
      [] step = "validate_req" -> "on_action"
      [] step = "on_action"    -> IF skip THEN "send_result" ELSE "validate_res"
      [] step = "validate_res" -> "send_result"
      [] step = "send_result"  -> "after"
      [] OTHER                 -> "recv"

\* The start() task at `await self._connection.recv()`.  `awaits` is the
\* call() invocation the running on_action handler awaits, 0 when none.
IdleLoop ==
    [pc |-> "recv", n |-> 0, action |-> "none", err |-> "none", awaits |-> 0]

\* route_message's `except OCPPError` and _handle_call's `except Exception`:
\* a CallError for error e is to be sent for inbound Call n.
Failing(n, action, e) ==
    [pc |-> "send_error", n |-> n, action |-> action, err |-> e,
     awaits |-> 0]

\* handler = handlers["_on_action"]: a bundle without on_action raises
\* through _raise_key_error; when that returns, `handler` is unbound and the
\* next statement raises UnboundLocalError out of route_message.
EnterStep(step, n, action) ==
    IF step = "on_action" /\ ~route_map[action].on_action
    THEN LET e == raise_key_error(action, ocpp_version)
         IN  IF e = "return"
             THEN [pc |-> "crashed", n |-> n, action |-> action,
                   err |-> "none", awaits |-> 0]
             ELSE Failing(n, action, e)
    ELSE [pc |-> step, n |-> n, action |-> action, err |-> "none",
          awaits |-> 0]

\* ------------------------------------------------ the receive loop
\* Mutant of Reading: a frame is read whatever start() is doing (every
\* frame routed in a task of its own).
ReadingAlways(l) == TRUE

\* start(): `await self.route_message(message)` has returned and the loop
\* is at `await self._connection.recv()` again.
Reading(l) == l.pc = "recv"

\* Mutant of ParseFailure: the error of unpack leaves route_message.
ParseFailureEscapes(l) == [l EXCEPT !.pc = "crashed"]

\* route_message, `except OCPPError` around unpack: the error is logged and
\* route_message returns, so start() goes on to its next recv().
ParseFailure(l) == l

\* start(): recv() returns a frame that unpack() rejects; route_message
\* logs it and returns.
RecvMalformed ==
    /\ Reading(loop)
    /\ Len(inbox) < MaxFrames
    /\ inbox' = Append(inbox, [NoMsg EXCEPT !.mt = "Malformed"])
    /\ loop' = ParseFailure(loop)
    /\ UNCHANGED <<naming, ocpp_version, call_lock, response_queue, wire, calls,
                   after>>

\* The responses a peer can send: a CallResult or a CallError to a Call
\* this session sent, or a response with an id that is no call's (only its
\* id is ever read: one form stands for all).
PeerResponses ==
    {create_call_result(id) : id \in SentIds \cup {NoiseId}}
      \cup {create_call_error(id, e) : id \in SentIds, e \in ErrorCodes}

\* What inbox keeps of a received frame.
Logged(msg) ==
    IF msg.mt = "Call" THEN msg ELSE [NoMsg EXCEPT !.mt = msg.mt]

\* The Calls a peer can send as its n-th frame.
PeerCalls(n) == {CallFrame(n, a) : a \in InboundActions}

\* route_message: the frame decodes but self._cursor.execute raises (no
\* cursor configured, or the database fails).  The exception is no
\* OCPPError: it leaves route_message and ends start().
RecvAuditFails ==
    /\ Reading(loop)
    /\ Len(inbox) < MaxFrames
    /\ \E msg \in PeerResponses \cup PeerCalls(Len(inbox) + 1) :
         inbox' = Append(inbox, Logged(msg))
    /\ loop' = [loop EXCEPT !.pc = "crashed"]
    /\ UNCHANGED <<naming, ocpp_version, call_lock, response_queue, wire, calls,
                   after>>

\* route_message: a CallResult or CallError is put on the response queue.
RecvResponse ==
    /\ Reading(loop)
    /\ Len(inbox) < MaxFrames
    /\ \E msg \in PeerResponses :
         /\ inbox' = Append(inbox, Logged(msg))
         /\ response_queue' = Append(response_queue, msg)
         /\ calls' = [c \in Calls |->
               IF calls[c].pc = "wait" /\ msg.unique_id = unique_id(c)
                  /\ calls[c].match_at = -1
               THEN [calls[c] EXCEPT !.match_at = calls[c].now]
               ELSE calls[c]]
    /\ UNCHANGED <<naming, ocpp_version, call_lock, wire, loop, after>>

\* route_message: a Call enters _handle_call; the route lookup.
RecvCall ==
    /\ Reading(loop)
    /\ Len(inbox) < MaxFrames
    /\ \E msg \in PeerCalls(Len(inbox) + 1) :
         /\ inbox' = Append(inbox, msg)
         /\ loop' =
              IF msg.action \notin DOMAIN route_map
              THEN LET e == raise_key_error(msg.action, ocpp_version)
                   IN  IF e = "return" THEN IdleLoop
                       ELSE Failing(msg.unique_id, msg.action, e)
              ELSE EnterStep(NextStep("lookup", route_map[msg.action].skip),
                             msg.unique_id, msg.action)
    /\ UNCHANGED <<naming, ocpp_version, call_lock, response_queue, wire, calls,
                   after>>

\* await validate_payload(msg, self._ocpp_version)
ValidateRequest ==
    /\ loop.pc = "validate_req"
    /\ \E valid \in BOOLEAN :
         loop' = IF valid
                 THEN EnterStep(NextStep("validate_req", FALSE), loop.n,
                                loop.action)
                 ELSE Failing(loop.n, loop.action, "ValidationError")
    /\ UNCHANGED <<naming, ocpp_version, call_lock, response_queue, wire, calls,
                   inbox, after>>

\* on_action returns a payload that serialises, returns one that
\* serialize_as_dict rejects (the exception leaves route_message), or
\* raises (caught: a CallError is sent).
OnActionReturns ==
    /\ loop.pc = "on_action"
    /\ \E r \in {"ok", "raise", "unserializable"} :
         loop' = CASE r = "ok" ->
                        EnterStep(NextStep("on_action",
                                           route_map[loop.action].skip),
                                  loop.n, loop.action)
                   [] r = "raise" ->
                        Failing(loop.n, loop.action, "HandlerError")
                   [] OTHER -> [loop EXCEPT !.pc = "crashed"]
    /\ UNCHANGED <<naming, ocpp_version, call_lock, response_queue, wire, calls,
                   inbox, after>>

\* Mutant of Suspend: the handler starts the call() in a task of its own
\* and does not await it.
SuspendDetached(l, c) == l

\* response = await response, with the handler inside `await self.call()`:
\* the handler, and with it _handle_call, route_message and start(), is
\* suspended until call() invocation c is over.
Suspend(l, c) == [l EXCEPT !.pc = "on_await", !.awaits = c]

\* The on_action handler awaits self.call(...): call() runs up to the lock
\* as in CallStart, and the receive loop is suspended on it.
OnActionCalls(c) ==
    /\ loop.pc = "on_action"
    /\ calls[c].pc = "idle"
    /\ \A d \in Calls : d < c => calls[d].pc # "idle"
    /\ \E valid \in BOOLEAN :
         calls' = [calls EXCEPT ![c] =
             [Validated(calls[c], valid) EXCEPT !.by = loop.n]]
    /\ loop' = Suspend(loop, c)
    /\ UNCHANGED <<naming, ocpp_version, call_lock, response_queue, wire, inbox,
                   after>>

\* The call() the handler awaits has returned or raised: the handler goes
\* on.
OnActionResumes ==
    /\ loop.pc = "on_await"
    /\ calls[loop.awaits].pc = "done"
    /\ loop' = [loop EXCEPT !.pc = "on_action", !.awaits = 0]
    /\ UNCHANGED <<naming, ocpp_version, call_lock, response_queue, wire, calls,
                   inbox, after>>

\* await validate_payload(response, self._ocpp_version)
ValidateResponse ==
    /\ loop.pc = "validate_res"
    /\ \E valid \in BOOLEAN :
         loop' = IF valid
                 THEN EnterStep(NextStep("validate_res", FALSE), loop.n,
                                loop.action)
                 ELSE Failing(loop.n, loop.action, "ValidationError")
    /\ UNCHANGED <<naming, ocpp_version, call_lock, response_queue, wire, calls,
                   inbox, after>>

\* await self._send(response.to_json())
SendResult ==
    /\ loop.pc = "send_result"
    /\ wire' = Append(wire, create_call_result(loop.n))
    /\ loop' = EnterStep(NextStep("send_result", FALSE), loop.n, loop.action)
    /\ UNCHANGED <<naming, ocpp_version, call_lock, response_queue, calls, inbox,
                   after>>

\* handlers["_after_action"]: no hook (KeyError, ignored), a hook that
\* returns an awaitable (ensure_future: a detached task), or a hook whose
\* body runs inside the call.
AfterAction ==
    /\ loop.pc = "after"
    /\ IF ~route_map[loop.action].after_action
       THEN /\ loop' = IdleLoop
            /\ UNCHANGED after
       ELSE \E kind \in {"task", "sync"} :
              /\ after' = [after EXCEPT ![loop.n] = kind]
              /\ loop' = IF kind = "task"
                         THEN EnterStep(NextStep("after", FALSE), 0, "none")
                         ELSE [loop EXCEPT !.pc = "after_sync"]
    /\ UNCHANGED <<naming, ocpp_version, call_lock, response_queue, wire, calls,
                   inbox>>

\* The after_action hook called inside _handle_call ends: it returns,
\* raises KeyError (ignored), raises an OCPPError (route_message sends a
\* CallError), or raises anything else (it leaves route_message).
AfterSyncEnds ==
    /\ loop.pc = "after_sync"
    /\ after' = [after EXCEPT ![loop.n] = "done"]
    /\ \E how \in {"return", "KeyError", "OCPPError", "Exception"} :
         loop' = CASE how \in {"return", "KeyError"} -> IdleLoop
                   [] how = "OCPPError" ->
                        Failing(loop.n, loop.action, "HookError")
                   [] OTHER -> [loop EXCEPT !.pc = "crashed"]
    /\ UNCHANGED <<naming, ocpp_version, call_lock, response_queue, wire, calls,
                   inbox>>

\* The detached after_action task ends, by a return or an exception that
\* nobody awaits.
AfterTaskEnds(n) ==
    /\ after[n] = "task"
    /\ after' = [after EXCEPT ![n] = "done"]
    /\ UNCHANGED <<naming, ocpp_version, call_lock, response_queue, wire, calls,
                   loop, inbox>>

\* response = msg.create_call_error(error).to_json(); await self._send(response)
SendError ==
    /\ loop.pc = "send_error"
    /\ wire' = Append(wire, create_call_error(loop.n, loop.err))
    /\ loop' = IdleLoop
    /\ UNCHANGED <<naming, ocpp_version, call_lock, response_queue, calls, inbox,
                   after>>

\* ------------------------------------------------ naming conversion
\* The keys in internal naming: generic compound keys and the keys of the
\* exception tables (soc, csms, a trailing url, ocpp_csms_url, v2x, v2g,
\* soc_limit_reached).
SnakeKeys ==
    {<<"t", "r", "a", "n", "s", "a", "c", "t", "i", "o", "n", "_", "i",
       "d">>,
     <<"c", "h", "a", "r", "g", "e", "_", "p", "o", "i", "n", "t", "_",
       "v", "e", "n", "d", "o", "r">>,
     <<"f", "u", "l", "l", "_", "s", "o", "c">>,
     <<"c", "s", "m", "s", "_", "r", "o", "o", "t", "_", "c", "e", "r",
       "t", "i", "f", "i", "c", "a", "t", "e">>,
     <<"r", "e", "s", "p", "o", "n", "d", "e", "r", "_", "u", "r", "l">>,
     <<"o", "c", "p", "p", "_", "c", "s", "m", "s", "_", "u", "r", "l">>,
     <<"e", "v", "_", "m", "i", "n", "_", "v", "2", "x", "_", "e", "n",
       "e", "r", "g", "y", "_", "r", "e", "q", "u", "e", "s", "t">>,
     <<"i", "s", "o", "1", "5", "1", "1", "8", "_", "v", "2", "g", "_",
       "c", "e", "r", "t", "i", "f", "i", "c", "a", "t", "e">>,
     <<"s", "o", "c", "_", "l", "i", "m", "i", "t", "_", "r", "e", "a",
       "c", "h", "e", "d">>}

\* The same keys in wire naming.
WireKeys ==
    {<<"t", "r", "a", "n", "s", "a", "c", "t", "i", "o", "n", "I", "d">>,
     <<"c", "h", "a", "r", "g", "e", "P", "o", "i", "n", "t", "V", "e",
       "n", "d", "o", "r">>,
     <<"f", "u", "l", "l", "S", "o", "C">>,
     <<"C", "S", "M", "S", "R", "o", "o", "t", "C", "e", "r", "t", "i",
       "f", "i", "c", "a", "t", "e">>,
     <<"r", "e", "s", "p", "o", "n", "d", "e", "r", "U", "R", "L">>,
     <<"o", "c", "p", "p", "C", "s", "m", "s", "U", "r", "l">>,
     <<"e", "v", "M", "i", "n", "V", "2", "X", "E", "n", "e", "r", "g",
       "y", "R", "e", "q", "u", "e", "s", "t">>,
     <<"i", "s", "o", "1", "5", "1", "1", "8", "V", "2", "G", "C", "e",
       "r", "t", "i", "f", "i", "c", "a", "t", "e">>,
     <<"S", "O", "C", "L", "i", "m", "i", "t", "R", "e", "a", "c", "h",
       "e", "d">>}

\* A payload that holds `key` at every level down to `depth`, the levels
\* nested directly in one another ("dict") or through a list ("list"); the
\* values that are no keys look like keys of both namings.
RECURSIVE Nested(_, _, _)
Nested(key, kind, depth) ==
    IF depth = 0 THEN Leaf("idTag_value")
    ELSE Dict(<< <<key,
                   IF kind = "list"
                   THEN List(<<Nested(key, kind, depth - 1),
                               Leaf("id_tagValue")>>)
                   ELSE Nested(key, kind, depth - 1)>> >>)

\* The payloads to convert: towards the wire from internal naming, towards
\* internal naming from the wire.
NamingInputs ==
    {[pc |-> "input", dir |-> dir, input |-> Nested(key, kind, depth),
      output |-> Leaf(""), back |-> Leaf("")] :
        dir \in {"to_wire"}, key \in SnakeKeys, kind \in {"dict", "list"},
        depth \in 1..MaxDepth}
      \cup
    {[pc |-> "input", dir |-> dir, input |-> Nested(key, kind, depth),
      output |-> Leaf(""), back |-> Leaf("")] :
        dir \in {"to_internal"}, key \in WireKeys, kind \in {"dict", "list"},
        depth \in 1..MaxDepth}

\* The payload is converted: snake_to_camel_case towards the wire (call(),
\* and the response of _handle_call), camel_to_snake_case towards internal
\* naming (the payload of an inbound Call, the response of a call()).
Convert ==
    /\ naming.pc = "input"
    /\ naming' = [naming EXCEPT
           !.pc = "converted",
           !.output = IF naming.dir = "to_wire"
                      THEN snake_to_camel_case(naming.input)
                      ELSE camel_to_snake_case(naming.input)]
    /\ UNCHANGED <<ocpp_version, call_lock, response_queue, wire, calls,
                   loop, inbox, after>>

\* The converted payload is converted back by the other function.
ConvertBack ==
    /\ naming.pc = "converted"
    /\ naming' = [naming EXCEPT
           !.pc = "back",
           !.back = IF naming.dir = "to_wire"
                    THEN camel_to_snake_case(naming.output)
                    ELSE snake_to_camel_case(naming.output)]
    /\ UNCHANGED <<ocpp_version, call_lock, response_queue, wire, calls,
                   loop, inbox, after>>

\* ------------------------------------------------ specifications
\* The session after __init__.
InitSession ==
    /\ ocpp_version \in Versions
    /\ call_lock = 0
    /\ response_queue = <<>>
    /\ wire = <<>>
    /\ calls = [c \in Calls |-> IdleCall]
    /\ loop = IdleLoop
    /\ inbox = <<>>
    /\ after = [n \in Frames |-> "none"]

Init == InitSession /\ naming = NoNaming

CallStep ==
    \E c \in Calls :
       \/ CallStart(c)
       \/ Acquire(c)
       \/ SendCall(c)
       \/ SendCallFails(c)
       \/ GetResponse(c)
       \/ WaitTimeout(c)
       \/ FinishCall(c)

InboundStep ==
    \/ RecvCall
    \/ ValidateRequest
    \/ OnActionReturns
    \/ ValidateResponse
    \/ SendResult
    \/ AfterAction
    \/ AfterSyncEnds
    \/ SendError
    \/ \E n \in Frames : AfterTaskEnds(n)

\* The call engine: call() invocations, the clock, and the receive loop
\* queueing the peer's responses.
InitCall == Init /\ ocpp_version = "1.6"

NextCall ==
    \/ CallStep
    \/ Tick
    \/ RecvResponse

SpecCall == InitCall /\ [][NextCall]_vars

\* The call engine under the event loop's scheduling: time passes, due
\* timers fire, ready queue items are handed over and a task that can run
\* is run.
FairSpecCall ==
    /\ SpecCall
    /\ WF_vars(Tick)
    /\ \A c \in Calls :
          /\ WF_vars(GetResponse(c))
          /\ WF_vars(WaitTimeout(c))
          /\ WF_vars(FinishCall(c))

\* The inbound pipeline: the receive loop handling the peer's frames.
NextInbound ==
    \/ InboundStep
    \/ RecvResponse
    \/ RecvMalformed
    \/ RecvAuditFails

SpecInbound == Init /\ [][NextInbound]_vars

\* The naming conversion of payloads, there and back.
InitNaming ==
    /\ InitSession
    /\ ocpp_version = "1.6"
    /\ naming \in NamingInputs

NextNaming ==
    \/ Convert
    \/ ConvertBack

SpecNaming == InitNaming /\ [][NextNaming]_vars

\* The session: the receive loop and the call() invocations together,
\* with on_action handlers that await a call().  The peer's Calls are for
\* the bundle that has on_action only and skips validation (the other
\* bundles are the subject of SpecInbound).
NextSession ==
    \/ CallStep
    \/ Tick
    \/ RecvResponse
    \/ RecvCall /\ loop'.action = "DataTransfer"
    \/ \E c \in Calls : OnActionCalls(c)
    \/ OnActionResumes
    \/ OnActionReturns
    \/ SendResult
    \/ AfterAction
    \/ SendError

SpecSession == InitCall /\ [][NextSession]_vars


\* ------------------------------------------------------------ claims
\* The calls inside the `async with self._call_lock` block.
InLockBlock == {c \in Calls : calls[c].pc \in {"send", "wait"}}

\* The calls in transit: Call frame sent, outcome not reached yet.  These
\* are the tasks waiting on _response_queue.
InTransit == {c \in Calls : calls[c].pc = "wait"}

\* C1: single-flight.  At most one call() is ever between sending its Call
\* frame and reaching its outcome, no call is about to send while another
\* is still inside the lock block, and so at most one task waits on
\* _response_queue.
C1_SingleFlight ==
    /\ Cardinality(InLockBlock) <= 1
    /\ Cardinality(InTransit) <= 1
    /\ \A c \in InLockBlock : call_lock = c

\* Two calls contend: the frames of both are on the wire, the first has
\* reached its outcome and the second is in transit.
C1_Witness ==
    \E c, d \in Calls :
       /\ c # d
       /\ calls[c].pc \in {"post", "done"}
       /\ calls[d].pc = "wait"
       /\ {unique_id(c), unique_id(d)} \subseteq SentIds

\* C3: call() only ever takes, returns or raises from a response whose
\* unique_id is the id of the Call frame it sent; a response with another
\* id, such as the late response to an earlier call that timed out, is
\* never its outcome.
C3_OnlyOwnResponse ==
    \A c \in Calls :
       /\ calls[c].response # NoMsg =>
             calls[c].response.unique_id = unique_id(c)
       /\ calls[c].outcome \in {"result", "error"} =>
             /\ calls[c].response # NoMsg
             /\ calls[c].response.unique_id = unique_id(c)

\* Call d timed out; its response arrived late and call c discarded it
\* before it took its own.
C3_Witness ==
    \E c, d \in Calls :
       /\ c # d
       /\ calls[d].pc = "done" /\ calls[d].outcome = "none"
       /\ calls[d].response = NoMsg
       /\ calls[c].pc = "post"
       /\ calls[c].response # NoMsg
       /\ \E i \in 1..Len(calls[c].discarded) :
             calls[c].discarded[i][1] = unique_id(d)

\* C4: a mismatch does not re-arm the wait.  The deadline stays at the
\* start of the wait plus response_timeout whatever is discarded, the wait
\* never lasts longer, a response with the call's id queued before the
\* deadline is the one delivered, at the time it was queued.
C4_DeadlineNotRearmed ==
    \A c \in Calls :
       /\ calls[c].pc = "wait" =>
             /\ calls[c].wait_until = response_timeout
             /\ calls[c].now <= response_timeout
       /\ calls[c].pc = "post" =>
             /\ calls[c].ended <= response_timeout
             /\ calls[c].response = NoMsg =>
                   \/ calls[c].match_at = -1
                   \/ calls[c].match_at >= response_timeout
             /\ calls[c].response # NoMsg =>
                   calls[c].ended = calls[c].match_at

\* The specification's example: timeout 2 (4 ticks), mismatches discarded
\* at 0.5 and 1.0 (ticks 1 and 2), the match delivered at 1.5 (tick 3).
C4_Witness ==
    \E c \in Calls :
       /\ calls[c].pc = "post"
       /\ calls[c].response # NoMsg
       /\ Len(calls[c].discarded) = 2
       /\ calls[c].discarded[1][2] = 1
       /\ calls[c].discarded[2][2] = 2
       /\ calls[c].ended = 3

C6_LockReleased ==
    /\ call_lock \in Calls => calls[call_lock].pc \in {"send", "wait"}
    /\ \A c \in Calls :
          calls[c].pc \in {"post", "done"} => call_lock # c

\* One call ended by an exception of the send, another with a result, and
\* the lock is free again.
C6_Witness ==
    /\ call_lock = 0
    /\ \E c \in Calls : calls[c].pc = "done" /\ calls[c].outcome = "connection"
    /\ \E c \in Calls : calls[c].pc = "done" /\ calls[c].outcome = "result"

\* C7: a call whose matching response is a CallError returns None without
\* raising when suppress is set, raises the error built from that CallError
\* when it is not, and never returns a typed result.
C7_SuppressOrRaise ==
    \A c \in Calls :
       calls[c].pc = "done" /\ calls[c].response.mt = "CallError" =>
          /\ calls[c].suppress =>
                calls[c].outcome = "none" /\ calls[c].exc = "none"
          /\ ~calls[c].suppress =>
                /\ calls[c].outcome = "error"
                /\ calls[c].exc = calls[c].response.err
          /\ calls[c].outcome # "result"

\* One call suppressed a CallError, another raised the peer's
\* SecurityError.
C7_Witness ==
    \E c, d \in Calls :
       /\ calls[c].pc = "done" /\ calls[c].response.mt = "CallError"
       /\ calls[c].suppress /\ calls[c].outcome = "none"
       /\ calls[d].pc = "done" /\ calls[d].response.mt = "CallError"
       /\ ~calls[d].suppress /\ calls[d].outcome = "error"
       /\ calls[d].exc = "SecurityError"


\* The response frames on the wire that carry the id of inbound frame n.
Responses(n) ==
    {i \in 1..Len(wire) :
        wire[i].mt \in {"CallResult", "CallError"} /\ wire[i].unique_id = n}

\* route_message has returned for inbound frame n.
Routed(n) == n < Len(inbox) \/ (n = Len(inbox) /\ loop.pc = "recv")

\* The inbound frames that decoded to a Call.
InboundCalls == {n \in 1..Len(inbox) : inbox[n].mt = "Call"}

\* C2: every inbound Call that decodes gets exactly one terminal response
\* with its id, a CallResult or a CallError: never two, and one once
\* route_message has returned for it, whatever the bundle, the handlers'
\* outcome and the validation results.
C2_ExactlyOneResponse ==
    \A n \in InboundCalls :
       /\ Cardinality(Responses(n)) <= 1
       /\ Routed(n) => Cardinality(Responses(n)) = 1

\* The action has no usable handler: no entry in route_map, or an entry
\* without on_action.
NoUsableHandler(action) ==
    action \notin DOMAIN route_map \/ ~route_map[action].on_action

\* The CallError the claim expects for an action without usable handler.
ExpectedError(action) ==
    IF action \in (IF ocpp_version = "1.6" THEN v16_Action ELSE v201_Action)
    THEN "NotImplementedError" ELSE "NotSupportedError"

\* No handler of inbound Call n is running or has run.
NoHandlerRun(n) ==
    /\ after[n] = "none"
    /\ ~(loop.n = n /\ loop.pc \in {"on_action", "validate_res",
                                    "send_result", "after", "after_sync"})

\* C8 as claimed: a Call whose action has no usable handler is answered
\* with one CallError, NotImplemented when the version defines the action
\* and NotSupported when it does not, and no handler is run.
C8_NoHandlerError ==
    \A n \in InboundCalls :
       NoUsableHandler(inbox[n].action) =>
          /\ NoHandlerRun(n)
          /\ \A i \in Responses(n) :
                wire[i] = create_call_error(n, ExpectedError(inbox[n].action))
          /\ Routed(n) => Cardinality(Responses(n)) = 1

\* C8 as amended: the same, except that a bundle without on_action whose
\* schema validation is not skipped answers a request that fails
\* validation with the validation error, the request being validated
\* before on_action is looked up.
C8_NoHandlerErrorOrInvalid ==
    \A n \in InboundCalls :
       NoUsableHandler(inbox[n].action) =>
          /\ NoHandlerRun(n)
          /\ \A i \in Responses(n) :
                \/ wire[i] =
                     create_call_error(n, ExpectedError(inbox[n].action))
                \/ /\ inbox[n].action \in DOMAIN route_map
                   /\ ~route_map[inbox[n].action].skip
                   /\ wire[i] = create_call_error(n, "ValidationError")
          /\ Routed(n) => Cardinality(Responses(n)) = 1

\* A Call for a bundle without on_action passed validation and was
\* answered NotImplemented, and a Call for an action that is not in the
\* route map and not of the version was answered NotSupported.
C8_Witness ==
    \E n, m \in InboundCalls :
       /\ inbox[n].action = "MeterValues"
       /\ Routed(n)
       /\ \E i \in Responses(n) :
             wire[i] = create_call_error(n, "NotImplementedError")
       /\ inbox[m].action = "UnknownThing"
       /\ Routed(m)
       /\ \E i \in Responses(m) :
             wire[i] = create_call_error(m, "NotSupportedError")

\* C9: the after_action hook of an inbound Call is not started before
\* the CallResult of that Call has been handed to the transport.
C9_ResponseBeforeAfterAction ==
    \A n \in Frames :
       after[n] # "none" =>
          \E i \in 1..Len(wire) : wire[i] = create_call_result(n)

\* An after_action hook is running, its Call's response on the wire.
C9_Witness ==
    \E n \in InboundCalls :
       /\ after[n] \in {"task", "sync"}
       /\ \E i \in 1..Len(wire) : wire[i] = create_call_result(n)

\* C10: while the after_action hook of inbound Call n has not finished,
\* the receive loop is not held by it, whether the hook returns a value
\* directly or returns an awaitable.
C10_AfterActionNeverStalls ==
    \A n \in Frames :
       after[n] \in {"task", "sync"} =>
          ~(loop.n = n /\ loop.pc = "after_sync")


\* The receive loop has stopped: an exception left route_message and with
\* it start().
LoopStopped == loop.pc = "crashed"

\* C11: no failure in the handling of a decoded inbound Call, up to and
\* including the sending of its response, stops the receive loop: whatever
\* the route lookup, the validations, on_action and the serialisation of
\* its return value do, the Call is answered and the loop goes on.
C11_InboundFailureAnswered ==
    \A n \in InboundCalls :
       /\ ~(LoopStopped /\ loop.n = n /\ after[n] = "none")
       /\ (Routed(n) /\ after[n] = "none") => Cardinality(Responses(n)) >= 1

\* C12: once the after_action hook of inbound Call n has ended, by a
\* return or by an exception of any type, the Call still has the one
\* response it had, no further frame is being sent for it and the receive
\* loop has not been stopped by it.
C12_AfterActionFailureSwallowed ==
    \A n \in InboundCalls :
       after[n] = "done" =>
          /\ Cardinality(Responses(n)) = 1
          /\ ~(loop.n = n /\ loop.pc \in {"send_error", "crashed"})

\* C16: the receive loop is never stopped between the decoding of a frame
\* and its routing: a failure of the audit step leaves the message to be
\* routed and the loop running.
C16_AuditFailureHarmless ==
    \A n \in 1..Len(inbox) :
       (n = Len(inbox) /\ inbox[n].mt # "Malformed") =>
          ~(LoopStopped /\ loop.n = 0)

\* C17: a frame that cannot be decoded is dropped.  The step that receives
\* it sends nothing, runs no handler, leaves _response_queue, _call_lock
\* and every call() as they were, and leaves the receive loop at its next
\* recv().
C17_MalformedDropped ==
    [][(Len(inbox') > Len(inbox) /\ inbox'[Len(inbox')].mt = "Malformed") =>
          /\ wire' = wire
          /\ response_queue' = response_queue
          /\ call_lock' = call_lock
          /\ calls' = calls
          /\ after' = after
          /\ loop'.pc = "recv"]_vars

\* A frame that could not be decoded was dropped, and the loop has read
\* the next frame, a Call, and answered it.
C17_Witness ==
    \E n \in InboundCalls :
       /\ n > 1
       /\ inbox[n - 1].mt = "Malformed"
       /\ Routed(n)
       /\ Responses(n) # {}
       /\ Len(wire) = 1

\* C19: after_action runs only for a Call answered with a CallResult.  A
\* Call answered with the CallError of a raising on_action or of a failed
\* validation has no CallResult on the wire and its after_action is never
\* started; at the moment on_action raises or the response fails
\* validation, nothing has been sent for the Call yet.
C19_AfterActionOnlyAfterResult ==
    /\ [](\A n \in InboundCalls :
            /\ (\E i \in Responses(n) :
                   wire[i].err \in {"HandlerError", "ValidationError"}) =>
                  /\ after[n] = "none"
                  /\ \A i \in Responses(n) : wire[i].mt = "CallError"
            /\ after[n] # "none" =>
                  \E i \in Responses(n) : wire[i].mt = "CallResult")
    /\ [][(loop.pc \in {"on_action", "validate_res"}
             /\ loop'.pc = "send_error") =>
            /\ after[loop.n] = "none"
            /\ Responses(loop.n) = {}
            /\ loop'.n = loop.n]_vars

\* Two Calls for a bundle with both hooks: on_action raised for one, a
\* validation failed for the other; both got a CallError and no hook ran.
C19_Witness ==
    \E n, m \in InboundCalls :
       /\ inbox[n].action = "BootNotification"
       /\ inbox[m].action = "BootNotification"
       /\ Routed(n) /\ Routed(m)
       /\ \E i \in Responses(n) : wire[i] = create_call_error(n, "HandlerError")
       /\ \E i \in Responses(m) :
             wire[i] = create_call_error(m, "ValidationError")
       /\ after[n] = "none" /\ after[m] = "none"

\* The Call frames on the wire that call() invocation c has sent.
CallFrames(c) ==
    {i \in 1..Len(wire) :
        wire[i].mt = "Call" /\ wire[i].unique_id = unique_id(c)}

\* C14: a call() puts one frame on the wire once its request has passed
\* validation and been sent, and never a second one, however many
\* mismatches it discards and whether or not it times out; a call() whose
\* request fails validation ends there with the validation error, having
\* sent nothing, not touched _call_lock and not touched _response_queue.
C14_OneFramePerCall ==
    /\ [](\A c \in Calls :
            /\ Cardinality(CallFrames(c)) <= 1
            /\ calls[c].pc \in {"idle", "lock", "send"} =>
                  CallFrames(c) = {}
            /\ calls[c].pc \in {"wait", "post"} =>
                  Cardinality(CallFrames(c)) = 1
            /\ (calls[c].pc = "done"
                  /\ calls[c].outcome \in {"none", "result", "error"}) =>
                  Cardinality(CallFrames(c)) = 1
            /\ (calls[c].pc = "done" /\ calls[c].outcome = "validation"
                  /\ calls[c].response = NoMsg) =>
                  CallFrames(c) = {} /\ call_lock # c)
    /\ [][\A c \in Calls :
            (calls[c].pc = "idle" /\ calls'[c].outcome = "validation") =>
               /\ calls'[c].pc = "done"
               /\ call_lock' = call_lock
               /\ response_queue' = response_queue
               /\ wire' = wire]_vars

\* One call ended on a request that failed validation, nothing sent;
\* another has discarded two mismatches and timed out, one frame sent.
C14_Witness ==
    \E c, d \in Calls :
       /\ calls[c].pc = "done" /\ calls[c].outcome = "validation"
       /\ calls[c].response = NoMsg
       /\ CallFrames(c) = {}
       /\ calls[d].pc = "post" /\ calls[d].response = NoMsg
       /\ Len(calls[d].discarded) = 2
       /\ Cardinality(CallFrames(d)) = 1
       /\ Len(wire) = 1

\* C18: _get_specific_response ends in one of two ways: it returns a
\* response that carries the given id, or it raises asyncio.TimeoutError.
C18_ResponseOrTimeoutError ==
    \A c \in Calls :
       calls[c].pc = "post" =>
          /\ calls[c].how \in {"response", "TimeoutError"}
          /\ calls[c].how = "response" =>
                calls[c].response.unique_id = unique_id(c)

\* The frames on the wire that answer an inbound Call.
ResponseFrames == {i \in 1..Len(wire) : wire[i].mt \in {"CallResult", "CallError"}}

\* C13: inbound frames are handled one at a time in arrival order.  A
\* frame is read only when the handling of the one before is over, also
\* when its on_action handler is suspended; the frame being handled is the
\* last one read; the responses to inbound Calls are on the wire in the
\* order in which the Calls arrived; and a response is queued at the tail
\* of _response_queue in the step that reads it, the queue otherwise only
\* losing its head.
C13_OneAtATimeInOrder ==
    /\ [](loop.pc \notin {"recv", "crashed"} =>
            /\ loop.n = Len(inbox)
            /\ inbox[loop.n].mt = "Call")
    /\ [](\A i, j \in ResponseFrames :
            i < j => wire[i].unique_id <= wire[j].unique_id)
    /\ [][inbox' # inbox =>
            /\ loop.pc = "recv"
            /\ Len(inbox') = Len(inbox) + 1
            /\ SubSeq(inbox', 1, Len(inbox)) = inbox]_vars
    /\ [][response_queue' # response_queue =>
            \/ /\ response_queue # <<>>
               /\ response_queue' = Tail(response_queue)
            \/ /\ Len(inbox') = Len(inbox) + 1
               /\ Len(response_queue') = Len(response_queue) + 1
               /\ SubSeq(response_queue', 1, Len(response_queue))
                     = response_queue
               /\ inbox'[Len(inbox')]
                     = Logged(response_queue'[Len(response_queue')])]_vars

\* Two Calls have been answered in their order of arrival, the handler of
\* the first having been suspended on a call() of its own, and a response
\* that arrived after them is queued.
C13_Witness ==
    /\ Len(inbox) = 3
    /\ inbox[1].mt = "Call" /\ inbox[2].mt = "Call"
    /\ inbox[3].mt = "CallError"
    /\ Len(response_queue) = 1
    /\ \E c \in Calls : calls[c].by = 1 /\ calls[c].pc = "done"
    /\ \E i, j \in ResponseFrames :
          i < j /\ wire[i].unique_id = 1 /\ wire[j].unique_id = 2

\* C20: while an on_action handler is suspended on a call(), the receive
\* loop reads no frame and queues nothing.  The call() the handler awaits
\* ends its wait at its deadline without a response, no response with its
\* id being queued before the handler is over; and a call() of another
\* task that is waiting meanwhile, its response not yet queued, ends
\* without a response at its deadline as well.
C20_NestedCallStarved ==
    /\ [](\A c \in Calls :
            /\ (calls[c].by # 0 /\ calls[c].pc = "post") =>
                  /\ calls[c].response = NoMsg
                  /\ calls[c].match_at = -1
                  /\ calls[c].ended = response_timeout
            /\ (calls[c].by # 0 /\ calls[c].pc = "done") =>
                  /\ calls[c].response = NoMsg
                  /\ calls[c].outcome \in {"none", "validation", "connection"}
            /\ (loop.pc = "on_await" /\ loop.awaits = c) =>
                  \A i \in 1..Len(response_queue) :
                     response_queue[i].unique_id # unique_id(c))
    /\ [][loop.pc = "on_await" =>
            /\ inbox' = inbox
            /\ \/ response_queue' = response_queue
               \/ /\ response_queue # <<>>
                  /\ response_queue' = Tail(response_queue)
            /\ \A d \in Calls :
                  (calls[d].pc = "wait" /\ calls[d].match_at = -1
                     /\ calls'[d].pc = "post") =>
                     /\ calls'[d].response = NoMsg
                     /\ calls'[d].ended = response_timeout]_vars

\* A call() of another task was waiting when the handler of inbound Call 1
\* began to await its own call(): the first has timed out, then the
\* handler's call() was sent and has timed out too, the handler still
\* suspended.
C20_Witness ==
    \E c, d \in Calls :
       /\ loop.pc = "on_await" /\ loop.awaits = c
       /\ calls[c].by = 1
       /\ calls[c].pc = "post" /\ calls[c].response = NoMsg
       /\ calls[d].by = 0
       /\ calls[d].pc = "done" /\ calls[d].outcome = "none"
       /\ calls[d].response = NoMsg
       /\ Len(wire) = 2
       /\ wire[1] = CallFrame(unique_id(d), "call")
       /\ wire[2] = CallFrame(unique_id(c), "call")

\* C15: naming round trip.  A payload converted to the other naming and
\* back is the payload it was, keys and other values alike, at every
\* depth: camel_to_snake_case(snake_to_camel_case(x)) = x for keys in
\* internal naming and snake_to_camel_case(camel_to_snake_case(x)) = x for
\* keys in wire naming.
C15_RoundTrip ==
    naming.pc = "back" => naming.back = naming.input

====
